---- MODULE Spec2Model ----
(***************************************************************************)
(* Server Shepherd backend (src/backend.py): the TCP ingestion threads     *)
(* with their reads from the socket, the parser parse_nginx_log, the       *)
(* bounded record buffer log_buffer, the endpoints GET /logs, GET /stats   *)
(* and POST /acknowledge, and the WebSocket fan-out broadcast_log_data     *)
(* with its subscriber endpoint.                                           *)
(*                                                                         *)
(* Threads.  Every ingestion connection runs handle_tcp_connection in a    *)
(* thread of its own; the HTTP and WebSocket endpoints and the broadcast   *)
(* coroutines run on the one event-loop thread.  Nothing is locked, so the *)
(* steps of an ingest (append, length check, pop, schedule) interleave     *)
(* with each other, with the iterations of the acknowledge loop and with   *)
(* the reads of get_stats.  On the event loop a coroutine runs from one    *)
(* await to the next without interruption by another coroutine.            *)
(***************************************************************************)
EXTENDS Integers, Sequences, FiniteSets, TLC

\* ------------------------------------------------------------------ bounds
\* The buffer's capacity, 1000 in the code (src/backend.py:175), scaled down.
Capacity == 3
\* Ingestion connections (threads of handle_tcp_connection).
NumConns == 2
\* Records ingested in one run, over all connections.
MaxIngest == 5
\* Records ingested in one run of the acknowledgement specification.
MaxAckIngest == 4
\* The modulus of the id's disambiguator, 10000 in the code, scaled down.
HashMod == 2
\* Milliseconds the clock may reach.
MaxTime == 2
\* WebSocket subscribers that may ever connect.
NumChannels == 3
\* Records ingested in one run of the fan-out specification.
MaxBroadcasts == 2

\* The longest raw line of the parser's exhaustive inputs, in characters.
MaxLineLen == 5

\* Records ingested in one run of the query specifications.
MaxQueryIngest == 4

\* Texts an agent writes in one run of the stream specification.
MaxWrites == 3
\* The messages an agent writes before it closes its connection.
MaxCloseWrites == 1
\* The lines written to the file an agent watches.
MaxFileLines == 4

Conns == 1..NumConns
\* The JSON lines an agent sends, each named by the value of its hash.
Lines == {1}
\* The JSON objects an agent may send: 1, 2 and 3 carry the raw_line
\* RawLineOf gives, 4 is an object without the key raw_line.
JsonLines == 1..4
\* The lines an agent sends in the query specifications.
QueryLines == {1, 2}
\* The values of the query parameter limit of GET /logs.
Limits == (0 - 1)..(Capacity + 1)
Channels == 1..NumChannels
Ids == (1..MaxTime) \X (0..(HashMod - 1))

VARIABLES
  log_buffer,          \* the list log_buffer, oldest record first
  pc,                  \* pc[c]: where connection c's thread stands
  log_data,            \* log_data[c]: uid of the record thread c is handling
  sent,                \* sent[c]: records connection c has appended so far
  now,                 \* the clock, in milliseconds
  ack,                 \* the acknowledge request in progress
  active_connections,  \* the list active_connections
  chan,                \* chan[w]: the transport state of websocket w
  endpoint,            \* endpoint[w]: where websocket_endpoint(w) stands
  tasks,               \* the broadcast coroutines, in scheduling order
  pending,             \* pending[w]: coroutines suspended in w.send_text
  received,            \* received[w]: the messages delivered to w, in order
  lateSend,            \* a send was started to a channel that failed before
  evicted,             \* the ids of the records popped from log_buffer so far
  raw_line,            \* the argument of a call of parse_nginx_log
  parsed_data,         \* what that call returned
  logs,                \* the list GET /logs returned last
  logsCall,            \* that request's limit, and log_buffer as it ran
  stats,               \* the GET /stats request in progress
  wire,                \* wire[c]: the bytes sent on connection c, not yet read
  lines,               \* lines[c]: the lines of the last read still to handle
  conn,                \* conn[c]: the state of connection c's socket
  written,             \* written[c]: the texts the agent of c has sent, in order
  peer,                \* peer[c]: whether the agent's end of connection c is open
  partial,             \* partial[c]: the text the agent of c wrote last, without a newline
  closes,              \* closes[c]: for each client_socket.close() of c, the records ingested by then
  tcp_server,          \* the listening socket
  agent,               \* which of the agents runs: its module
  file,                \* the number of lines of the watched file
  position,            \* file_position, last_position or last_line_count, in lines
  new_lines,           \* the lines the agent has read and not yet handled
  socket,              \* the connection self.socket stands for; 0 is None
  forwarded            \* the file lines handed to socket.send, in order

parseVars == <<raw_line, parsed_data>>
queryVars == <<logs, logsCall, stats>>
closeVars == <<peer, partial, closes, tcp_server>>
agentVars == <<agent, file, position, new_lines, socket, forwarded>>
streamVars == <<wire, lines, conn, written, closeVars, agentVars>>

vars == <<log_buffer, pc, log_data, sent, now, ack, active_connections, chan,
          endpoint, tasks, pending, received, lateSend, evicted, parseVars,
          queryVars, streamVars>>

\* ----------------------------------------------------------------- helpers
Range(s) == {s[i] : i \in 1..Len(s)}

RECURSIVE SumOver(_, _)
SumOver(f, S) ==
  IF S = {} THEN 0
  ELSE LET x == CHOOSE y \in S : TRUE IN f[x] + SumOver(f, S \ {x})

Ingested == SumOver(sent, Conns)

\* list.remove(x): drops the first occurrence of x.
RECURSIVE Remove(_, _)
Remove(s, x) ==
  IF s = <<>> THEN <<>>
  ELSE IF Head(s) = x THEN Tail(s)
  ELSE <<Head(s)>> \o Remove(Tail(s), x)

\* hash(line) % 10000: a line stands for the value of its hash.
HashOf(line) == line % HashMod

\* f"{int(time.time() * 1000)}_{hash(line) % 10000}"
MakeId(t, line) == <<t, HashOf(line)>>

\* ---------------------------------------------------------- parse_nginx_log
\* A str is the sequence of its characters.  The characters str.split() and
\* str.strip() treat as whitespace; of these the model's lines use the blank.
IsSpace(ch) == ch \in {" ", "\t", "\n", "\r"}

\* The k-th smallest element of the set S of integers.
Nth(S, k) == CHOOSE i \in S : Cardinality({j \in S : j < i}) = k - 1

\* s.split(ch): the segments between the occurrences of ch, at least one.
Split(s, ch) ==
  LET at == {i \in 1..Len(s) : s[i] = ch}
      n == Cardinality(at)
      cut(k) == IF k = 0 THEN 0 ELSE IF k = n + 1 THEN Len(s) + 1 ELSE Nth(at, k)
  IN [k \in 1..(n + 1) |-> SubSeq(s, cut(k - 1) + 1, cut(k) - 1)]

\* s.split(): the maximal runs of characters that are not whitespace.
SplitWords(s) ==
  LET starts == {i \in 1..Len(s) : ~IsSpace(s[i]) /\ (i = 1 \/ IsSpace(s[i - 1]))}
      ends == {i \in 1..Len(s) : ~IsSpace(s[i]) /\ (i = Len(s) \/ IsSpace(s[i + 1]))}
  IN [k \in 1..Cardinality(starts) |-> SubSeq(s, Nth(starts, k), Nth(ends, k))]

\* s.strip()
Strip(s) ==
  LET inked == {i \in 1..Len(s) : ~IsSpace(s[i])} IN
    IF inked = {} THEN <<>>
    ELSE SubSeq(s, Nth(inked, 1), Nth(inked, Cardinality(inked)))

DigitChars == <<"0", "1", "2", "3", "4", "5", "6", "7", "8", "9">>

IsDigit(ch) == \E i \in 1..Len(DigitChars) : DigitChars[i] = ch

DigitVal(ch) == (CHOOSE i \in 1..Len(DigitChars) : DigitChars[i] = ch) - 1

RECURSIVE DigitsVal(_)
DigitsVal(s) ==
  IF s = <<>> THEN 0
  ELSE 10 * DigitsVal(SubSeq(s, 1, Len(s) - 1)) + DigitVal(s[Len(s)])

\* int(tok) does not raise ValueError: an optional sign and decimal digits
\* (tok is a word, so it has no whitespace; the lines have no underscore).
IsInt(tok) ==
  LET body == IF tok # <<>> /\ Head(tok) \in {"+", "-"} THEN Tail(tok) ELSE tok IN
    body # <<>> /\ \A i \in 1..Len(body) : IsDigit(body[i])

\* int(tok)
IntOf(tok) ==
  IF Head(tok) = "-" THEN 0 - DigitsVal(Tail(tok))
  ELSE IF Head(tok) = "+" THEN DigitsVal(Tail(tok))
  ELSE DigitsVal(tok)

unknown ==
  <<"u", "n", "k", "n", "o", "w", "n">>

UNKNOWN ==
  <<"U", "N", "K", "N", "O", "W", "N">>

RootPath ==
  <<"/">>

\* {"status_code": 500, "ip": "unknown", "method": "UNKNOWN", "path": "/",
\*  "size": 0, "user_agent": "unknown"}
DefaultParsed ==
  [status_code |-> 500, ip |-> unknown, method |-> UNKNOWN, path |-> RootPath,
   size |-> 0, user_agent |-> unknown]

\* parts[3] if len(parts) > 3 else "unknown" (parts[0] is the first segment)
UserAgentOf(parts) == IF Len(parts) > 3 THEN parts[4] ELSE unknown

\* mutant of MalformedParsed: the first word is not taken for the ip
MalformedParsedPlain(words) == DefaultParsed

\* `if len(words) >= 1`: the default record with the first word as the ip
MalformedParsed(words) ==
  IF Len(words) >= 1 THEN [DefaultParsed EXCEPT !.ip = words[1]] ELSE DefaultParsed

\* parse_nginx_log(log_line) for a str log_line.  No step of it raises on a
\* str: int() is guarded by `except (ValueError, IndexError)`, the indexings
\* by length tests.
parse_nginx_log(log_line) ==
  IF log_line = <<>> \/ Strip(log_line) = <<>> THEN DefaultParsed
  ELSE LET parts == Split(log_line, "\"") IN
    IF Len(parts) < 3 THEN MalformedParsed(SplitWords(log_line))
    ELSE LET ip_part == Strip(parts[1])
             request_parts == SplitWords(parts[2])
             status_size_part == SplitWords(Strip(parts[3])) IN
      [status_code |-> IF status_size_part # <<>> /\ IsInt(status_size_part[1])
                         THEN IntOf(status_size_part[1]) ELSE 500,
       ip |-> IF ip_part # <<>> THEN SplitWords(ip_part)[1] ELSE unknown,
       method |-> IF Len(request_parts) > 0 THEN request_parts[1] ELSE UNKNOWN,
       path |-> IF Len(request_parts) > 1 THEN request_parts[2] ELSE RootPath,
       size |-> IF Len(status_size_part) > 1 /\ IsInt(status_size_part[2])
                  THEN IntOf(status_size_part[2]) ELSE 0,
       user_agent |-> UserAgentOf(parts)]

\* The access-log line of the end-to-end scenario.
SampleLine ==
  <<"2", "0", "3", ".", "0", ".", "1", "1", "3", ".", "5", " ", "-", " ",
    "-", " ", "[", "1", "0", "/", "O", "c", "t", "/", "2", "0", "2", "3",
    ":", "1", "3", ":", "5", "5", ":", "3", "6", " ", "+", "0", "0", "0",
    "0", "]", " ", "\"", "G", "E", "T", " ", "/", "a", "p", "i", "/", "d",
    "a", "t", "a", " ", "H", "T", "T", "P", "/", "1", ".", "1", "\"", " ",
    "4", "0", "4", " ", "5", "1", "2", " ", "\"", "-", "\"", " ", "\"",
    "c", "u", "r", "l", "/", "7", ".", "6", "8", ".", "0", "\"">>

\* The characters of the exhaustively enumerated raw lines: the quote, the
\* blank, a digit, a sign and a letter.
ParseChars == {"\"", " ", "4", "-", "a"}

\* The raw lines parse_nginx_log is applied to.
ParseInputs ==
  UNION {[1..k -> ParseChars] : k \in 0..MaxLineLen} \cup {SampleLine}

\* json.loads(line)["raw_line"] for the lines the agents send: line 1 is a
\* request answered with 404, line 3 is not an access-log line, every other
\* line is a request answered with 200.
RawLineOf(line) ==
  IF line = 1 THEN <<"1", " ", "\"", "G", " ", "/", "\"", " ", "4", "0", "4", " ", "7">>
  ELSE IF line = 3 THEN <<"a">>
  ELSE <<"1", " ", "\"", "G", " ", "/", "\"", " ", "2", "0", "0", " ", "7">>

\* parsed_data = parse_nginx_log(log_data["raw_line"]), for each line
ParsedOf == [line \in JsonLines |-> parse_nginx_log(RawLineOf(line))]

\* The dict json.loads returns, with the id set; uid names the dict object
\* (connection, number of the record on that connection).  The keys
\* acknowledged and acknowledged_at are absent (FALSE, 0) until acknowledged.
NewRecord(c, k, line, t) ==
  [uid |-> <<c, k>>, line |-> line, id |-> MakeId(t, line),
   parsed_data |-> ParsedOf[line],
   acknowledged |-> FALSE, acknowledged_at |-> 0]

\* mutant of NeedsEvict: the test written with >= for >
NeedsEvictOffByOne(buf) == Len(buf) >= Capacity

\* len(log_buffer) > 1000
NeedsEvict(buf) == Len(buf) > Capacity

\* mutant of Evict: pop() for pop(0)
EvictNewest(buf) == SubSeq(buf, 1, Len(buf) - 1)

\* log_buffer.pop(0) on a list that is not empty
Evict(buf) == Tail(buf)

NoAck == [pc |-> "idle", id |-> <<0, 0>>, idx |-> 0, res |-> "none", had |-> {}]

NoLogsCall == [taken |-> FALSE, limit |-> 0, buffer |-> <<>>]

\* error_rate is the quotient num / den.
NoStats ==
  [pc |-> "idle", idx |-> 0, total_logs |-> 0, error_count |-> 0,
   success_count |-> 0, error_rate |-> [num |-> 0, den |-> 1],
   first |-> <<>>, last |-> <<>>]

\* The event loop is free to run another callback.
LoopFree == ack.pc = "idle" /\ stats.pc = "idle"

\* ------------------------------------------------------------ the clock
Tick ==
  /\ now < MaxTime
  /\ now' = now + 1
  /\ UNCHANGED <<log_buffer, pc, log_data, sent, ack, active_connections, chan,
                 endpoint, tasks, pending, received, lateSend, evicted>>
  /\ UNCHANGED <<parseVars, queryVars, streamVars>>

\* ------------------------------------------- handle_tcp_connection, a line
\* json.loads, parse_nginx_log, the id, and log_buffer.append(log_data).
IngestLine(c, line) ==
  /\ pc[c] = "recv"
  /\ LET k == sent[c] + 1 IN
       /\ log_buffer' = Append(log_buffer, NewRecord(c, k, line, now))
       /\ sent' = [sent EXCEPT ![c] = k]
       /\ log_data' = [log_data EXCEPT ![c] = <<c, k>>]
  /\ pc' = [pc EXCEPT ![c] = "check"]
  /\ UNCHANGED <<now, ack, active_connections, chan, endpoint, tasks, pending,
                 received, lateSend, evicted>>
  /\ UNCHANGED <<parseVars, queryVars>>

\* The same for a line whose arrival on the socket is not looked at.
AppendRecord(c, line) == IngestLine(c, line) /\ UNCHANGED streamVars

\* if len(log_buffer) > 1000:
CheckLen(c) ==
  /\ pc[c] = "check"
  /\ pc' = [pc EXCEPT ![c] = IF NeedsEvict(log_buffer) THEN "pop" ELSE "sched"]
  /\ UNCHANGED <<log_buffer, log_data, sent, now, ack, active_connections, chan,
                 endpoint, tasks, pending, received, lateSend, evicted>>
  /\ UNCHANGED <<parseVars, queryVars, streamVars>>

\* log_buffer.pop(0).  On an empty list pop raises IndexError: the handler's
\* `except Exception` prints it, and the line's broadcast is not scheduled.
Pop(c) ==
  /\ pc[c] = "pop"
  /\ IF log_buffer = <<>>
       THEN /\ pc' = [pc EXCEPT ![c] = "recv"]
            /\ UNCHANGED <<log_buffer, evicted>>
       ELSE /\ log_buffer' = Evict(log_buffer)
            /\ evicted' = evicted \cup {log_buffer[1].id}
            /\ pc' = [pc EXCEPT ![c] = "sched"]
  /\ UNCHANGED <<log_data, sent, now, ack, active_connections, chan, endpoint,
                 tasks, pending, received, lateSend>>
  /\ UNCHANGED <<parseVars, queryVars, streamVars>>

\* mutant of NewTask: the broadcast is given the record the thread appends next
NewTaskOfNext(uid) ==
  [msg |-> <<uid[1], uid[2] + 1>>, pc |-> "new", idx |-> 0, cur |-> 0,
   disconnected |-> <<>>, atStart |-> {}, goneAtStart |-> {}, atEnd |-> {}]

\* The coroutine object broadcast_log_data(log_data), not yet started.
NewTask(uid) ==
  [msg |-> uid, pc |-> "new", idx |-> 0, cur |-> 0, disconnected |-> <<>>,
   atStart |-> {}, goneAtStart |-> {}, atEnd |-> {}]

\* asyncio.run_coroutine_threadsafe(broadcast_log_data(log_data), main_event_loop)
Schedule(c) ==
  /\ pc[c] = "sched"
  /\ tasks' = Append(tasks, NewTask(log_data[c]))
  /\ pc' = [pc EXCEPT ![c] = "recv"]
  /\ UNCHANGED <<log_buffer, log_data, sent, now, ack, active_connections, chan,
                 endpoint, pending, received, lateSend, evicted>>
  /\ UNCHANGED <<parseVars, queryVars, streamVars>>

\* ------------------------------------- handle_tcp_connection, the socket
\* The text of a JSON object, in two halves: neither half alone, and no
\* other sequence of halves, is a JSON text.
JsonHead == <<"{1", "{2", "{3", "{4">>

TextOf(line) == <<JsonHead[line], "}">>

\* A byte that no UTF-8 text contains.
BadByte == "xFF"

\* What an agent writes before a newline: an object with a raw_line in
\* access-log syntax, one with another raw_line, one without raw_line, a text
\* that is not JSON, or bytes that are not UTF-8.
StreamTexts == {TextOf(1), TextOf(3), TextOf(4), <<"j">>, <<BadByte>>}

\* json.loads(line): the object, or 0 for JSONDecodeError.
JsonLoads(text) ==
  LET t == Strip(text) IN
    IF \E l \in JsonLines : t = TextOf(l)
      THEN CHOOSE l \in JsonLines : t = TextOf(l)
      ELSE 0

\* log_data["raw_line"] does not raise KeyError.
HasRawLine(v) == v # 4

\* data.decode('utf-8').strip().split('\n'), without the lines that
\* `if line.strip()` skips.
LinesOf(data) == SelectSeq(Split(Strip(data), "\n"), LAMBDA l : Strip(l) # <<>>)

\* The agent of connection c writes a text and a newline.
AgentSend(c, text) ==
  /\ conn[c] = "reading"
  /\ peer[c] = "open"
  /\ partial[c] = <<>>
  /\ wire' = [wire EXCEPT ![c] = @ \o text \o <<"\n">>]
  /\ written' = [written EXCEPT ![c] = Append(@, text)]
  /\ UNCHANGED <<log_buffer, pc, log_data, sent, now, ack, active_connections, chan,
                 endpoint, tasks, pending, received, lateSend, evicted, lines, conn>>
  /\ UNCHANGED <<parseVars, queryVars, closeVars, agentVars>>

\* finally: client_socket.close(), in the thread of connection c.
CloseEverySocket(cn, c) == [d \in Conns |-> "closed"]

CloseSocket(cn, c) == [cn EXCEPT ![c] = "closed"]

\* data = client_socket.recv(4096) returns the next n bytes of the stream, and
\* the data is decoded and split.  UnicodeDecodeError is raised outside the
\* loop over the lines: `except Exception` at the end of the function takes
\* it, and `finally` closes the socket.
Recv(c, n) ==
  /\ pc[c] = "recv"
  /\ lines[c] = <<>>
  /\ conn[c] = "reading"
  /\ n \in 1..Len(wire[c])
  /\ wire' = [wire EXCEPT ![c] = SubSeq(@, n + 1, Len(@))]
  /\ IF BadByte \in Range(SubSeq(wire[c], 1, n))
       THEN /\ conn' = CloseSocket(conn, c)
            /\ closes' = [closes EXCEPT ![c] = Append(@, Ingested)]
            /\ pc' = [pc EXCEPT ![c] = "closed"]
            /\ UNCHANGED lines
       ELSE /\ lines' = [lines EXCEPT ![c] = LinesOf(SubSeq(wire[c], 1, n))]
            /\ UNCHANGED <<conn, pc, closes>>
  /\ UNCHANGED <<log_buffer, log_data, sent, now, ack, active_connections, chan,
                 endpoint, tasks, pending, received, lateSend, evicted, written>>
  /\ UNCHANGED <<parseVars, queryVars, peer, partial, tcp_server, agentVars>>

\* The next round of `for line in lines`: a line that json.loads rejects, or
\* that has no raw_line, is printed and skipped; any other line is ingested.
ProcessLine(c) ==
  /\ pc[c] = "recv"
  /\ lines[c] # <<>>
  /\ lines' = [lines EXCEPT ![c] = Tail(@)]
  /\ LET v == JsonLoads(Head(lines[c])) IN
       IF v # 0 /\ HasRawLine(v)
         THEN IngestLine(c, v)
         ELSE UNCHANGED <<log_buffer, pc, log_data, sent, now, ack,
                          active_connections, chan, endpoint, tasks, pending,
                          received, lateSend, evicted, parseVars, queryVars>>
  /\ UNCHANGED <<wire, conn, written, closeVars, agentVars>>

\* The agent of connection c writes a text and no newline after it: the last
\* thing it writes.
AgentSendPartial(c, text) ==
  /\ conn[c] = "reading"
  /\ peer[c] = "open"
  /\ partial[c] = <<>>
  /\ wire' = [wire EXCEPT ![c] = @ \o text]
  /\ partial' = [partial EXCEPT ![c] = text]
  /\ UNCHANGED <<log_buffer, pc, log_data, sent, now, ack, active_connections, chan,
                 endpoint, tasks, pending, received, lateSend, evicted, lines, conn,
                 written, peer, closes, tcp_server>>
  /\ UNCHANGED <<parseVars, queryVars, agentVars>>

\* The agent of connection c closes its socket.
AgentClose(c) ==
  /\ peer[c] = "open"
  /\ peer' = [peer EXCEPT ![c] = "closed"]
  /\ UNCHANGED <<log_buffer, pc, log_data, sent, now, ack, active_connections, chan,
                 endpoint, tasks, pending, received, lateSend, evicted, wire, lines,
                 conn, written, partial, closes, tcp_server>>
  /\ UNCHANGED <<parseVars, queryVars, agentVars>>

\* recv returns b'' once the peer has closed and all it wrote is read:
\* `if not data: break`, and `finally` closes the socket.
RecvEof(c) ==
  /\ pc[c] = "recv"
  /\ lines[c] = <<>>
  /\ conn[c] = "reading"
  /\ peer[c] = "closed"
  /\ wire[c] = <<>>
  /\ conn' = CloseSocket(conn, c)
  /\ closes' = [closes EXCEPT ![c] = Append(@, Ingested)]
  /\ pc' = [pc EXCEPT ![c] = "closed"]
  /\ UNCHANGED <<log_buffer, log_data, sent, now, ack, active_connections, chan,
                 endpoint, tasks, pending, received, lateSend, evicted, wire, lines,
                 written, peer, partial, tcp_server>>
  /\ UNCHANGED <<parseVars, queryVars, agentVars>>

\* recv raises (the connection is reset): `except Exception` at the end of
\* the function prints the error, and `finally` closes the socket.  The
\* bytes not yet read are gone.
RecvError(c) ==
  /\ pc[c] = "recv"
  /\ lines[c] = <<>>
  /\ conn[c] = "reading"
  /\ wire' = [wire EXCEPT ![c] = <<>>]
  /\ conn' = CloseSocket(conn, c)
  /\ closes' = [closes EXCEPT ![c] = Append(@, Ingested)]
  /\ pc' = [pc EXCEPT ![c] = "closed"]
  /\ UNCHANGED <<log_buffer, log_data, sent, now, ack, active_connections, chan,
                 endpoint, tasks, pending, received, lateSend, evicted, lines,
                 written, peer, partial, tcp_server>>
  /\ UNCHANGED <<parseVars, queryVars, agentVars>>

\* --------------------------------------------------------------- the agents
\* main.py, log_agent.py and simple_log_agent.py tail a file that only
\* grows.  A line of the file is its number; every line is the access-log
\* line RawLineOf(1).
Agents == {"main", "log_agent", "simple_log_agent"}

\* self.socket of an agent that has called sys.exit.
Exited == NumConns + 1

\* What the agent hands to socket.send for a line, without the newline that
\* ends it: main.py sends the line itself, the other two json.dumps of an
\* object with timestamp, raw_line and source.
Message(a, i) == IF a = "main" THEN RawLineOf(1) ELSE TextOf(1)

\* mutant of NewLines: the whole file is taken, not the part after the position
AllLines(pos, n) == [k \in 1..n |-> k]

\* f.seek(position); f.readlines(), or lines[self.last_line_count:]
NewLines(pos, n) == [k \in 1..(n - pos) |-> pos + k]

\* socket.connect: the accept loop gives the agent the next connection, or
\* the connection is refused (0).
Connect ==
  IF tcp_server = "listening" /\ \E c \in Conns : conn[c] = "none"
    THEN CHOOSE c \in Conns : conn[c] = "none" /\ \A d \in 1..(c - 1) : conn[d] # "none"
    ELSE 0

\* A line is appended to the watched file.
FileGrows ==
  /\ file < MaxFileLines
  /\ file' = file + 1
  /\ UNCHANGED <<log_buffer, pc, log_data, sent, now, ack, active_connections, chan,
                 endpoint, tasks, pending, received, lateSend, evicted, wire, lines,
                 conn, written, closeVars, agent, position, new_lines, socket,
                 forwarded>>
  /\ UNCHANGED <<parseVars, queryVars>>

\* A poll of monitor_file, or a modification event: the lines after the
\* position are read and the position moves to the end of the file.
ReadNewLines ==
  /\ socket # Exited
  /\ new_lines = <<>>
  /\ file # position
  /\ new_lines' = NewLines(position, file)
  /\ position' = file
  /\ UNCHANGED <<log_buffer, pc, log_data, sent, now, ack, active_connections, chan,
                 endpoint, tasks, pending, received, lateSend, evicted, wire, lines,
                 conn, written, closeVars, agent, file, socket, forwarded>>
  /\ UNCHANGED <<parseVars, queryVars>>

\* socket.send(message) returns: the bytes are on their way, unless the
\* connection is broken already and they are lost.
SendReturns(c, i) ==
  /\ written' = [written EXCEPT ![c] = Append(@, Message(agent, i))]
  /\ wire' = IF conn[c] = "reading"
               THEN [wire EXCEPT ![c] = @ \o Message(agent, i) \o <<"\n">>]
               ELSE wire
  /\ forwarded' = Append(forwarded, i)

\* The next round of `for line in new_lines`.  A send on a broken connection
\* may raise.  simple_log_agent.py then closes the socket and connects again,
\* log_agent.py does so too and gives up the rest of the lines it has read,
\* main.py forgets the socket and connects again before the next line; a
\* refused connection ends the first two agents.
SendLogLine ==
  /\ socket # Exited
  /\ new_lines # <<>>
  /\ LET i == Head(new_lines) IN
       \/ /\ socket # 0
          /\ SendReturns(socket, i)
          /\ new_lines' = Tail(new_lines)
          /\ UNCHANGED <<socket, conn, peer>>
       \/ /\ socket # 0
          /\ conn[socket] = "closed"
          /\ forwarded' = Append(forwarded, i)
          /\ new_lines' = IF agent = "log_agent" THEN <<>> ELSE Tail(new_lines)
          /\ IF agent = "main"
               THEN /\ socket' = 0
                    /\ UNCHANGED <<conn, peer>>
               ELSE /\ socket' = IF Connect = 0 THEN Exited ELSE Connect
                    /\ peer' = [peer EXCEPT ![socket] = "closed"]
                    /\ conn' = IF Connect = 0 THEN conn
                               ELSE [conn EXCEPT ![Connect] = "reading"]
          /\ UNCHANGED <<wire, written>>
       \/ /\ socket = 0
          /\ Connect # 0
          /\ socket' = Connect
          /\ conn' = [conn EXCEPT ![Connect] = "reading"]
          /\ SendReturns(Connect, i)
          /\ new_lines' = Tail(new_lines)
          /\ UNCHANGED peer
       \/ /\ socket = 0
          /\ Connect = 0
          /\ new_lines' = Tail(new_lines)
          /\ UNCHANGED <<socket, conn, peer, wire, written, forwarded>>
  /\ UNCHANGED <<log_buffer, pc, log_data, sent, now, ack, active_connections, chan,
                 endpoint, tasks, pending, received, lateSend, evicted, lines,
                 partial, closes, tcp_server, agent, file, position>>
  /\ UNCHANGED <<parseVars, queryVars>>

\* ------------------------------------------- start_tcp_server and lifespan
\* client_socket, address = tcp_server.accept(), and the thread of the new
\* connection is started.  Once the listening socket is closed accept
\* raises, and the loop ends.
Accept(c) ==
  /\ tcp_server = "listening"
  /\ conn[c] = "none"
  /\ conn' = [conn EXCEPT ![c] = "reading"]
  /\ UNCHANGED <<log_buffer, pc, log_data, sent, now, ack, active_connections, chan,
                 endpoint, tasks, pending, received, lateSend, evicted, wire, lines,
                 written, closeVars>>
  /\ UNCHANGED <<parseVars, queryVars, agentVars>>

\* lifespan after `yield`: if tcp_server: tcp_server.close()
Shutdown ==
  /\ tcp_server = "listening"
  /\ tcp_server' = "closed"
  /\ UNCHANGED <<log_buffer, pc, log_data, sent, now, ack, active_connections, chan,
                 endpoint, tasks, pending, received, lateSend, evicted, wire, lines,
                 conn, written, peer, partial, closes>>
  /\ UNCHANGED <<parseVars, queryVars, agentVars>>

\* --------------------------------------------------------- acknowledge_error
\* POST /acknowledge arrives: the for loop's iterator is created.
AckCall(id) ==
  /\ ack.pc = "idle"
  /\ ack' = [pc |-> "loop", id |-> id, idx |-> 0, res |-> "none",
             had |-> {r.uid : r \in {x \in Range(log_buffer) : x.id = id}}]
  /\ UNCHANGED <<log_buffer, pc, log_data, sent, now, active_connections, chan,
                 endpoint, tasks, pending, received, lateSend, evicted>>
  /\ UNCHANGED <<parseVars, queryVars, streamVars>>

\* mutant of IdMatches: only the millisecond part of the id is compared
IdMatchesPrefix(r, id) == r.id[1] = id[1]

\* log.get("id") == request.log_id
IdMatches(r, id) == r.id = id

\* mutant of MarkAcknowledged: the write also resets the record's id
MarkAcknowledgedResettingId(r, t) ==
  [r EXCEPT !.acknowledged = TRUE, !.acknowledged_at = t, !.id = <<0, 0>>]

\* log["acknowledged"] = True; log["acknowledged_at"] = time.time()
MarkAcknowledged(r, t) == [r EXCEPT !.acknowledged = TRUE, !.acknowledged_at = t]

\* One round of `for log in log_buffer`: the list iterator yields the item at
\* its index, if the list is that long now, and the body compares its id.
\* The write goes to the dict object: it shows through every list that holds
\* the dict, the list a GET /logs returned among them.
AckIter ==
  /\ ack.pc = "loop"
  /\ IF ack.idx < Len(log_buffer)
       THEN LET i == ack.idx + 1 IN
            IF IdMatches(log_buffer[i], ack.id)
              THEN /\ log_buffer' = [log_buffer EXCEPT ![i] = MarkAcknowledged(@, now)]
                   /\ logs' = [j \in 1..Len(logs) |->
                                 IF logs[j].uid = log_buffer[i].uid
                                   THEN MarkAcknowledged(logs[j], now) ELSE logs[j]]
                   /\ ack' = [ack EXCEPT !.pc = "done", !.idx = i, !.res = "acknowledged"]
              ELSE /\ ack' = [ack EXCEPT !.idx = i]
                   /\ UNCHANGED <<log_buffer, logs>>
       ELSE /\ ack' = [ack EXCEPT !.pc = "done", !.res = "not_found"]
            /\ UNCHANGED <<log_buffer, logs>>
  /\ UNCHANGED <<pc, log_data, sent, now, active_connections, chan, endpoint,
                 tasks, pending, received, lateSend, evicted>>
  /\ UNCHANGED <<logsCall, stats, parseVars, streamVars>>

\* The response is sent; the endpoint is ready for the next request.
AckReturn ==
  /\ ack.pc = "done"
  /\ ack' = NoAck
  /\ UNCHANGED <<log_buffer, pc, log_data, sent, now, active_connections, chan,
                 endpoint, tasks, pending, received, lateSend, evicted>>
  /\ UNCHANGED <<parseVars, queryVars, streamVars>>

\* ---------------------------------------------------------- get_recent_logs
\* buf[-limit:], a new list of the same dicts: a negative start counts from
\* the end, and a start outside the list is clipped to it.
RecentLogs(buf, limit) ==
  LET n == Len(buf)
      start == IF 0 - limit < 0
                 THEN (IF n - limit < 0 THEN 0 ELSE n - limit)
                 ELSE (IF 0 - limit > n THEN n ELSE 0 - limit)
  IN SubSeq(buf, start + 1, n)

\* GET /logs?limit=N: return {"logs": log_buffer[-limit:]}
GetRecentLogs(limit) ==
  /\ LoopFree
  /\ ~logsCall.taken
  /\ logs' = RecentLogs(log_buffer, limit)
  /\ logsCall' = [taken |-> TRUE, limit |-> limit, buffer |-> log_buffer]
  /\ UNCHANGED <<log_buffer, pc, log_data, sent, now, ack, active_connections, chan,
                 endpoint, tasks, pending, received, lateSend, evicted, stats>>
  /\ UNCHANGED <<parseVars, streamVars>>

\* ---------------------------------------------------------------- get_stats
\* log.get("parsed_data", {}).get("status_code", 200) >= 400
IsError(r) == r.parsed_data.status_code >= 400

\* GET /stats arrives: `if not log_buffer:` returns the zeros, otherwise the
\* generator of sum() is created.
StatsCall ==
  /\ LoopFree
  /\ stats' = IF log_buffer = <<>>
                THEN [NoStats EXCEPT !.pc = "done"]
                ELSE [NoStats EXCEPT !.pc = "sum", !.first = log_buffer]
  /\ UNCHANGED <<log_buffer, pc, log_data, sent, now, ack, active_connections, chan,
                 endpoint, tasks, pending, received, lateSend, evicted, logs, logsCall>>
  /\ UNCHANGED <<parseVars, streamVars>>

\* One round of sum(1 for log in log_buffer if ...): the list iterator yields
\* the item at its index, if the list is that long now.
StatsIter ==
  /\ stats.pc = "sum"
  /\ stats' = IF stats.idx < Len(log_buffer)
                THEN [stats EXCEPT !.idx = @ + 1,
                        !.error_count = IF IsError(log_buffer[stats.idx + 1])
                                          THEN @ + 1 ELSE @]
                ELSE [stats EXCEPT !.pc = "success"]
  /\ UNCHANGED <<log_buffer, pc, log_data, sent, now, ack, active_connections, chan,
                 endpoint, tasks, pending, received, lateSend, evicted, logs, logsCall>>
  /\ UNCHANGED <<parseVars, streamVars>>

\* success_count = len(log_buffer) - error_count
StatsSuccess ==
  /\ stats.pc = "success"
  /\ stats' = [stats EXCEPT !.pc = "rate",
                            !.success_count = Len(log_buffer) - stats.error_count]
  /\ UNCHANGED <<log_buffer, pc, log_data, sent, now, ack, active_connections, chan,
                 endpoint, tasks, pending, received, lateSend, evicted, logs, logsCall>>
  /\ UNCHANGED <<parseVars, streamVars>>

\* error_rate = error_count / len(log_buffer) if log_buffer else 0.0
StatsRate ==
  /\ stats.pc = "rate"
  /\ stats' = [stats EXCEPT !.pc = "total",
                 !.error_rate = IF log_buffer # <<>>
                                  THEN [num |-> stats.error_count, den |-> Len(log_buffer)]
                                  ELSE [num |-> 0, den |-> 1]]
  /\ UNCHANGED <<log_buffer, pc, log_data, sent, now, ack, active_connections, chan,
                 endpoint, tasks, pending, received, lateSend, evicted, logs, logsCall>>
  /\ UNCHANGED <<parseVars, streamVars>>

\* return {"total_logs": len(log_buffer), ...}
StatsTotal ==
  /\ stats.pc = "total"
  /\ stats' = [stats EXCEPT !.pc = "done", !.total_logs = Len(log_buffer),
                            !.last = log_buffer]
  /\ UNCHANGED <<log_buffer, pc, log_data, sent, now, ack, active_connections, chan,
                 endpoint, tasks, pending, received, lateSend, evicted, logs, logsCall>>
  /\ UNCHANGED <<parseVars, streamVars>>

\* The response is sent; the endpoint is ready for the next request.
StatsReturn ==
  /\ stats.pc = "done"
  /\ stats' = NoStats
  /\ UNCHANGED <<log_buffer, pc, log_data, sent, now, ack, active_connections, chan,
                 endpoint, tasks, pending, received, lateSend, evicted, logs, logsCall>>
  /\ UNCHANGED <<parseVars, streamVars>>

\* ------------------------------------------------------ broadcast_log_data
\* Some earlier broadcast has seen its send to w fail.
FailedBefore(w, t) == \E u \in 1..(t - 1) : w \in Range(tasks[u].disconnected)

\* for connection in disconnected: active_connections.remove(connection)
\* list.remove raises ValueError on an absent item, which ends the loop.
RECURSIVE Cleanup(_, _)
Cleanup(list, disc) ==
  IF disc = <<>> THEN [list |-> list, raised |-> FALSE]
  ELSE IF Head(disc) \notin Range(list) THEN [list |-> list, raised |-> TRUE]
  ELSE Cleanup(Remove(list, Head(disc)), Tail(disc))

\* The coroutine t, its record being tk, runs on from the top of
\* `for connection in active_connections` to its next await or to its end:
\* the list iterator yields the item at its index if the list is that long
\* now, and the coroutine suspends in send_text; otherwise the loop is over
\* and the disconnected channels are removed.
Continue(t, tk, pend) ==
  IF tk.idx < Len(active_connections)
    THEN LET w == active_connections[tk.idx + 1] IN
         [tasks |-> [tasks EXCEPT ![t] = [tk EXCEPT !.idx = @ + 1, !.cur = w,
                                                   !.pc = "await"]],
          pending |-> [pend EXCEPT ![w] = Append(@, t)],
          active |-> active_connections,
          late |-> lateSend \/ FailedBefore(w, t)]
    ELSE LET c == Cleanup(active_connections, tk.disconnected) IN
         [tasks |-> [tasks EXCEPT ![t] = [tk EXCEPT !.cur = 0,
                        !.pc = IF c.raised THEN "raised" ELSE "done",
                        !.atEnd = Range(c.list)]],
          pending |-> pend,
          active |-> c.list,
          late |-> lateSend]

\* mutant of ReturnsAtOnce: an empty active set is taken for an error
RaisesOnEmpty(tk) == [tk EXCEPT !.pc = "raised"]

\* `if active_connections:` is false: the coroutine returns.
ReturnsAtOnce(tk) == [tk EXCEPT !.pc = "done"]

\* atStart, goneAtStart and atEnd record the channels that were registered
\* when the coroutine started, those that had been unregistered by then, and
\* those registered when it ended.
\* The event loop starts the coroutine (in the order of scheduling):
\* `if active_connections:`, json.dumps, and the first round of the loop.
TaskStart(t) ==
  /\ LoopFree
  /\ tasks[t].pc = "new"
  /\ \A u \in 1..(t - 1) : tasks[u].pc # "new"
  /\ IF active_connections = <<>>
       THEN /\ tasks' = [tasks EXCEPT ![t] = ReturnsAtOnce(@)]
            /\ UNCHANGED <<active_connections, pending, lateSend>>
       ELSE LET tk == [tasks[t] EXCEPT
                         !.atStart = Range(active_connections),
                         !.goneAtStart = {w \in Channels : endpoint[w] # "idle"}
                                           \ Range(active_connections)]
                n == Continue(t, tk, pending) IN
            /\ tasks' = n.tasks
            /\ pending' = n.pending
            /\ active_connections' = n.active
            /\ lateSend' = n.late
  /\ UNCHANGED <<log_buffer, pc, log_data, sent, now, ack, chan, endpoint, received,
                 evicted>>
  /\ UNCHANGED <<parseVars, queryVars, streamVars>>

\* await connection.send_text(message) returns: the message went out on w,
\* and the coroutine at the head of w's queue runs on.  The sends suspended
\* on one websocket complete in the order they were started (one transport
\* per websocket); sends on different websockets complete in any order.
SendOk(w) ==
  /\ LoopFree
  /\ chan[w] = "open"
  /\ pending[w] # <<>>
  /\ LET t == Head(pending[w])
         n == Continue(t, tasks[t], [pending EXCEPT ![w] = Tail(@)]) IN
       /\ received' = [received EXCEPT ![w] = Append(@, t)]
       /\ tasks' = n.tasks
       /\ pending' = n.pending
       /\ active_connections' = n.active
       /\ lateSend' = n.late
  /\ UNCHANGED <<log_buffer, pc, log_data, sent, now, ack, chan, endpoint, evicted>>
  /\ UNCHANGED <<parseVars, queryVars, streamVars>>

\* await connection.send_text(message) raises: except: disconnected.append
SendFail(w) ==
  /\ LoopFree
  /\ chan[w] = "dead"
  /\ pending[w] # <<>>
  /\ LET t == Head(pending[w])
         tk == [tasks[t] EXCEPT !.disconnected = Append(@, w)]
         n == Continue(t, tk, [pending EXCEPT ![w] = Tail(@)]) IN
       /\ tasks' = n.tasks
       /\ pending' = n.pending
       /\ active_connections' = n.active
       /\ lateSend' = n.late
  /\ UNCHANGED <<log_buffer, pc, log_data, sent, now, ack, chan, endpoint, received,
                 evicted>>
  /\ UNCHANGED <<parseVars, queryVars, streamVars>>

\* ------------------------------------------------------- websocket_endpoint
\* await websocket.accept(); active_connections.append(websocket)
Register(w) ==
  /\ LoopFree
  /\ chan[w] = "new"
  /\ \A v \in 1..(w - 1) : chan[v] # "new"
  /\ chan' = [chan EXCEPT ![w] = "open"]
  /\ endpoint' = [endpoint EXCEPT ![w] = "receiving"]
  /\ active_connections' = Append(active_connections, w)
  /\ UNCHANGED <<log_buffer, pc, log_data, sent, now, ack, tasks, pending,
                 received, lateSend, evicted>>
  /\ UNCHANGED <<parseVars, queryVars, streamVars>>

\* The peer goes away: from now on send_text and receive_text raise.
Drop(w) ==
  /\ chan[w] = "open"
  /\ chan' = [chan EXCEPT ![w] = "dead"]
  /\ UNCHANGED <<log_buffer, pc, log_data, sent, now, ack, active_connections,
                 endpoint, tasks, pending, received, lateSend, evicted>>
  /\ UNCHANGED <<parseVars, queryVars, streamVars>>

\* The peer stops reading while its connection stays up: a send_text to it
\* does not return.
Stall(w) ==
  /\ chan[w] = "open"
  /\ chan' = [chan EXCEPT ![w] = "stalled"]
  /\ UNCHANGED <<log_buffer, pc, log_data, sent, now, ack, active_connections,
                 endpoint, tasks, pending, received, lateSend, evicted>>
  /\ UNCHANGED <<parseVars, queryVars, streamVars>>

\* except WebSocketDisconnect: active_connections.remove(websocket)
EndpointDisconnect(w) ==
  /\ LoopFree
  /\ endpoint[w] = "receiving"
  /\ chan[w] = "dead"
  /\ IF w \in Range(active_connections)
       THEN /\ active_connections' = Remove(active_connections, w)
            /\ endpoint' = [endpoint EXCEPT ![w] = "ended"]
       ELSE /\ endpoint' = [endpoint EXCEPT ![w] = "raised"]
            /\ UNCHANGED active_connections
  /\ UNCHANGED <<log_buffer, pc, log_data, sent, now, ack, chan, tasks, pending,
                 received, lateSend, evicted>>
  /\ UNCHANGED <<parseVars, queryVars, streamVars>>

\* ------------------------------------------------------- the specifications
\* No request has been served, no byte has been sent, no line parsed.
InitSockets ==
  /\ wire = [c \in Conns |-> <<>>]
  /\ lines = [c \in Conns |-> <<>>]
  /\ written = [c \in Conns |-> <<>>]
  /\ peer = [c \in Conns |-> "open"]
  /\ partial = [c \in Conns |-> <<>>]
  /\ closes = [c \in Conns |-> <<>>]
  /\ tcp_server = "listening"

\* No agent has read its file: the agent of connection 1 is connected, and
\* the watched file is empty.
InitAgent ==
  /\ agent = "simple_log_agent"
  /\ file = 0
  /\ position = 0
  /\ new_lines = <<>>
  /\ socket = 1
  /\ forwarded = <<>>

InitQueries ==
  /\ raw_line = <<>>
  /\ parsed_data = <<>>
  /\ logs = <<>>
  /\ logsCall = NoLogsCall
  /\ stats = NoStats

\* Every agent is connected.
InitRequests ==
  /\ InitQueries
  /\ conn = [c \in Conns |-> "reading"]
  /\ InitSockets
  /\ InitAgent

Init ==
  /\ log_buffer = <<>>
  /\ pc = [c \in Conns |-> "recv"]
  /\ log_data = [c \in Conns |-> <<0, 0>>]
  /\ sent = [c \in Conns |-> 0]
  /\ now = 1
  /\ ack = NoAck
  /\ active_connections = <<>>
  /\ chan = [w \in Channels |-> "new"]
  /\ endpoint = [w \in Channels |-> "idle"]
  /\ tasks = <<>>
  /\ pending = [w \in Channels |-> <<>>]
  /\ received = [w \in Channels |-> <<>>]
  /\ lateSend = FALSE
  /\ evicted = {}
  /\ InitRequests

\* The buffer under concurrent ingestion: nobody acknowledges and no
\* subscriber connects.
NextStore ==
  \/ \E c \in Conns, line \in Lines : Ingested < MaxIngest /\ AppendRecord(c, line)
  \/ \E c \in Conns : CheckLen(c)
  \/ \E c \in Conns : Pop(c)
  \/ \E c \in Conns : Schedule(c)
  \/ \E t \in 1..Len(tasks) : TaskStart(t)

SpecStore == Init /\ [][NextStore]_vars

\* Acknowledgement while one agent sends records; no subscriber connects.
NextAck ==
  \/ Tick
  \/ \E line \in Lines : Ingested < MaxAckIngest /\ AppendRecord(1, line)
  \/ CheckLen(1)
  \/ Pop(1)
  \/ Schedule(1)
  \/ \E id \in Ids : AckCall(id)
  \/ AckIter
  \/ AckReturn
  \/ \E t \in 1..Len(tasks) : TaskStart(t)

SpecAck == Init /\ [][NextAck]_vars

\* The fan-out: the server has run for a while, so the buffer is full; one
\* agent sends records while subscribers come and go.
InitFull ==
  /\ log_buffer = [k \in 1..Capacity |-> NewRecord(0, k, 1, 1)]
  /\ pc = [c \in Conns |-> "recv"]
  /\ log_data = [c \in Conns |-> <<0, 0>>]
  /\ sent = [c \in Conns |-> 0]
  /\ now = 1
  /\ ack = NoAck
  /\ active_connections = <<>>
  /\ chan = [w \in Channels |-> "new"]
  /\ endpoint = [w \in Channels |-> "idle"]
  /\ tasks = <<>>
  /\ pending = [w \in Channels |-> <<>>]
  /\ received = [w \in Channels |-> <<>>]
  /\ lateSend = FALSE
  /\ evicted = {}

InitFanout == InitFull /\ InitRequests

NextFanout ==
  \/ \E line \in Lines : Ingested < MaxBroadcasts /\ AppendRecord(1, line)
  \/ CheckLen(1)
  \/ Pop(1)
  \/ Schedule(1)
  \/ \E t \in 1..Len(tasks) : TaskStart(t)
  \/ \E w \in Channels : SendOk(w)
  \/ \E w \in Channels : SendFail(w)
  \/ \E w \in Channels : Register(w)
  \/ \E w \in Channels : Drop(w)
  \/ \E w \in Channels : EndpointDisconnect(w)

SpecFanout == InitFanout /\ [][NextFanout]_vars

\* The fan-out with a subscriber that stops reading and never disconnects.
\* The event loop runs every callback that is ready, the network completes
\* every send to a peer that reads, and a thread that has appended a record
\* goes on to schedule its broadcast.
NextStall ==
  \/ \E line \in Lines : Ingested < MaxBroadcasts /\ AppendRecord(1, line)
  \/ CheckLen(1)
  \/ Pop(1)
  \/ Schedule(1)
  \/ \E t \in 1..Len(tasks) : TaskStart(t)
  \/ \E w \in Channels : SendOk(w)
  \/ \E w \in Channels : Register(w)
  \/ \E w \in Channels : Stall(w)

SpecStall ==
  /\ InitFanout
  /\ [][NextStall]_vars
  /\ WF_vars(CheckLen(1))
  /\ WF_vars(Pop(1))
  /\ WF_vars(Schedule(1))
  /\ \A t \in 1..MaxBroadcasts : WF_vars(t <= Len(tasks) /\ TaskStart(t))
  /\ \A w \in Channels : WF_vars(SendOk(w))

\* The parser on its own: parse_nginx_log is applied to a raw line.
Parse ==
  /\ parsed_data = <<>>
  /\ parsed_data' = <<parse_nginx_log(raw_line)>>
  /\ UNCHANGED <<log_buffer, pc, log_data, sent, now, ack, active_connections, chan,
                 endpoint, tasks, pending, received, lateSend, evicted, raw_line>>
  /\ UNCHANGED <<queryVars, streamVars>>

InitParse ==
  /\ log_buffer = <<>>
  /\ pc = [c \in Conns |-> "recv"]
  /\ log_data = [c \in Conns |-> <<0, 0>>]
  /\ sent = [c \in Conns |-> 0]
  /\ now = 1
  /\ ack = NoAck
  /\ active_connections = <<>>
  /\ chan = [w \in Channels |-> "new"]
  /\ endpoint = [w \in Channels |-> "idle"]
  /\ tasks = <<>>
  /\ pending = [w \in Channels |-> <<>>]
  /\ received = [w \in Channels |-> <<>>]
  /\ lateSend = FALSE
  /\ evicted = {}
  /\ raw_line \in ParseInputs
  /\ parsed_data = <<>>
  /\ logs = <<>>
  /\ logsCall = NoLogsCall
  /\ stats = NoStats
  /\ conn = [c \in Conns |-> "reading"]
  /\ InitSockets
  /\ InitAgent

NextParse == Parse

SpecParse == InitParse /\ [][NextParse]_vars

\* GET /logs and POST /acknowledge while one agent sends records.
NextLogs ==
  \/ \E line \in Lines : Ingested < MaxQueryIngest /\ AppendRecord(1, line)
  \/ CheckLen(1)
  \/ Pop(1)
  \/ Schedule(1)
  \/ \E t \in 1..Len(tasks) : TaskStart(t)
  \/ \E id \in Ids : AckCall(id)
  \/ AckIter
  \/ AckReturn
  \/ \E limit \in Limits : GetRecentLogs(limit)

SpecLogs == Init /\ [][NextLogs]_vars

\* GET /stats while one agent sends records.
NextStats ==
  \/ \E line \in QueryLines : Ingested < MaxQueryIngest /\ AppendRecord(1, line)
  \/ CheckLen(1)
  \/ Pop(1)
  \/ Schedule(1)
  \/ \E t \in 1..Len(tasks) : TaskStart(t)
  \/ StatsCall
  \/ StatsIter
  \/ StatsSuccess
  \/ StatsRate
  \/ StatsTotal
  \/ StatsReturn

SpecStats == Init /\ [][NextStats]_vars

\* The ingestion stream: one agent writes texts, the server reads them in
\* chunks of any size.  The server has run for a while, so the buffer is full.
NextStream ==
  \/ \E text \in StreamTexts : Len(written[1]) < MaxWrites /\ AgentSend(1, text)
  \/ \E n \in 1..Len(wire[1]) : Recv(1, n)
  \/ ProcessLine(1)
  \/ CheckLen(1)
  \/ Pop(1)
  \/ Schedule(1)
  \/ \E t \in 1..Len(tasks) : TaskStart(t)

SpecStream == InitFanout /\ [][NextStream]_vars

\* Eviction under concurrent ingestion: two agents send records and nothing
\* else happens, from the empty buffer on.
NextEvict ==
  \/ \E c \in {1, 2}, line \in Lines : Ingested < MaxIngest /\ AppendRecord(c, line)
  \/ \E c \in {1, 2} : CheckLen(c)
  \/ \E c \in {1, 2} : Pop(c)
  \/ \E c \in {1, 2} : Schedule(c)

SpecEvict == Init /\ [][NextEvict]_vars

\* The life of the server: the accept loop takes connections, their agents
\* send messages, and the application shuts down.
InitShutdown ==
  /\ InitFull
  /\ InitQueries
  /\ conn = [c \in Conns |-> "none"]
  /\ InitSockets
  /\ InitAgent

NextShutdown ==
  \/ \E c \in {1, 2} : Accept(c)
  \/ Shutdown
  \/ \E c \in {1, 2} : Len(written[c]) < MaxCloseWrites /\ AgentSend(c, TextOf(1))
  \/ \E c \in {1, 2} : \E n \in 1..Len(wire[c]) : Recv(c, n)
  \/ \E c \in {1, 2} : ProcessLine(c)
  \/ \E c \in {1, 2} : CheckLen(c)
  \/ \E c \in {1, 2} : Pop(c)
  \/ \E c \in {1, 2} : Schedule(c)

SpecShutdown == InitShutdown /\ [][NextShutdown]_vars

\* One agent tails its file and sends what it reads, the server reads what
\* arrives, and a connection may be reset.
InitTail ==
  /\ InitFull
  /\ InitQueries
  /\ conn = [c \in Conns |-> IF c = 1 THEN "reading" ELSE "none"]
  /\ InitSockets
  /\ agent \in Agents
  /\ file = 0
  /\ position = 0
  /\ new_lines = <<>>
  /\ socket = 1
  /\ forwarded = <<>>

NextTail ==
  \/ FileGrows
  \/ ReadNewLines
  \/ SendLogLine
  \/ \E c \in Conns : Recv(c, Len(wire[c]))
  \/ \E c \in Conns : RecvError(c)
  \/ \E c \in Conns : ProcessLine(c)
  \/ \E c \in Conns : CheckLen(c)
  \/ \E c \in Conns : Pop(c)
  \/ \E c \in Conns : Schedule(c)

SpecTail == InitTail /\ [][NextTail]_vars

\* The end of an ingestion connection: the agent of connection 1 writes
\* messages, the last one perhaps without its newline, and closes, or the
\* connection is reset, while the agent of connection 2 writes.
NextClose ==
  \/ \E c \in {1, 2} : Len(written[c]) < MaxCloseWrites /\ AgentSend(c, TextOf(1))
  \/ AgentSendPartial(1, TextOf(1))
  \/ AgentClose(1)
  \/ \E c \in {1, 2} : \E n \in 1..Len(wire[c]) : Recv(c, n)
  \/ RecvEof(1)
  \/ RecvError(1)
  \/ \E c \in {1, 2} : ProcessLine(c)
  \/ \E c \in {1, 2} : CheckLen(c)
  \/ \E c \in {1, 2} : Pop(c)
  \/ \E c \in {1, 2} : Schedule(c)

SpecClose == InitFanout /\ [][NextClose]_vars

\* ------------------------------------------------------------------ claims
Uids(buf) == [i \in 1..Len(buf) |-> buf[i].uid]

\* C1: in every reachable state, also between the steps of an ingest, the
\* buffer holds at most Capacity records.
C1_BufferWithinCapacity == Len(log_buffer) <= Capacity

\* C2: once a single connection has ingested Capacity + k records (k >= 1)
\* into the initially empty buffer and its ingest is over, the buffer holds
\* exactly its Capacity newest records, in the order of insertion.
C2_SingleConnectionKeepsNewest ==
  \A c \in Conns :
    (sent[c] = Ingested /\ sent[c] > Capacity /\ pc[c] \in {"sched", "recv"})
      => Uids(log_buffer) = [i \in 1..Capacity |-> <<c, sent[c] - Capacity + i>>]

C2_Witness ==
  /\ sent[1] = Capacity + 2
  /\ sent[2] = 0
  /\ pc[1] = "recv"
  /\ Len(log_buffer) = Capacity

\* C3: while the connections have ingested no more than Capacity records in
\* all, the buffer holds every ingested record exactly once, and the records
\* of each connection in the order that connection sent them.
C3_ConcurrentIngestKeepsAll ==
  Ingested <= Capacity =>
    /\ Len(log_buffer) = Ingested
    /\ \A c \in Conns : \A k \in 1..sent[c] :
         Cardinality({i \in 1..Len(log_buffer) : log_buffer[i].uid = <<c, k>>}) = 1
    /\ \A i, j \in 1..Len(log_buffer) :
         (i < j /\ log_buffer[i].uid[1] = log_buffer[j].uid[1])
           => log_buffer[i].uid[2] < log_buffer[j].uid[2]

C3_Witness ==
  /\ Ingested = Capacity
  /\ \A c \in Conns : sent[c] >= 1 /\ pc[c] = "recv"
  /\ Uids(log_buffer) = <<<<2, 1>>, <<1, 1>>, <<2, 2>>>>

\* C4: a channel that receives two messages receives them in the order in
\* which their broadcasts were scheduled.
C4_PerChannelOrder ==
  \A w \in Channels : \A i, j \in 1..Len(received[w]) :
    i < j => received[w][i] < received[w][j]

Finished(t) == tasks[t].pc \in {"done", "raised"}

\* C5: when a broadcast is over, every channel whose send failed in it is out
\* of the active set, and every other channel that was registered from its
\* start to its end has been sent the message.
C5_FailureIsolated ==
  \A t \in 1..Len(tasks) :
    Finished(t) =>
      /\ \A w \in Range(tasks[t].disconnected) : w \notin tasks[t].atEnd
      /\ \A w \in (tasks[t].atStart \cap tasks[t].atEnd) \ Range(tasks[t].disconnected) :
           t \in Range(received[w])

\* C6: a subscriber registered when a message M1 is broadcast, still
\* registered when that broadcast is over and unregistered when a later
\* message M2 is broadcast has received M1; a subscriber unregistered when a
\* message is broadcast does not receive it; and no send is started to a
\* subscriber whose send failed in the broadcast of an earlier message.
C6_MembershipDecidesDelivery ==
  /\ \A t, u \in 1..Len(tasks) :
       \A w \in (tasks[t].atStart \cap tasks[t].atEnd) \ Range(tasks[t].disconnected) :
         (t < u /\ Finished(t) /\ w \in tasks[u].goneAtStart)
           => t \in Range(received[w])
  /\ \A t \in 1..Len(tasks) : \A w \in tasks[t].goneAtStart :
       t \notin Range(received[w])
  /\ ~lateSend

\* C7: no removal is attempted on a channel that is already out of the active
\* set (no remove raises), and a subscriber whose endpoint has handled its
\* disconnect is not in the active set.
C7_RemovedExactlyOnce ==
  /\ \A t \in 1..Len(tasks) : tasks[t].pc # "raised"
  /\ \A w \in Channels : endpoint[w] # "raised"
  /\ \A w \in Channels : endpoint[w] = "ended" => w \notin Range(active_connections)

\* C8: a broadcast that is under way reaches every subscriber that was
\* registered at its start and keeps reading, whatever the other subscribers
\* do: the message is eventually sent to it (or it leaves the active set).
C8_StalledPeerDelaysNobody ==
  \A t \in 1..MaxBroadcasts : \A w \in Channels :
    (t <= Len(tasks) /\ tasks[t].pc = "await" /\ w \in tasks[t].atStart
       /\ chan[w] = "open")
      ~> (\/ t \in Range(received[w])
          \/ chan[w] # "open"
          \/ w \notin Range(active_connections))

\* C9: an acknowledge of an id that a record of the buffer carries from the
\* request's start to its end ends with "acknowledged" and with a record of
\* that id acknowledged, the first time and every later time.
C9_AckOfPresentId ==
  [][(/\ ack.pc = "loop"
      /\ ack'.pc = "done"
      /\ \E r \in Range(log_buffer') : r.id = ack.id /\ r.uid \in ack.had)
       => /\ ack'.res = "acknowledged"
          /\ \E r \in Range(log_buffer') :
               r.id = ack.id /\ r.acknowledged /\ r.acknowledged_at > 0]_vars

\* C10: while no record of the buffer carries the requested id (it never
\* existed, or its record has been evicted), a step of acknowledge changes no
\* record, and the request ends with "not_found".
C10_AckOfAbsentId ==
  [][(ack.pc = "loop" /\ ack' # ack /\ \A r \in Range(log_buffer) : r.id # ack.id)
       => /\ log_buffer' = log_buffer
          /\ ack'.pc = "done" => ack'.res = "not_found"]_vars

C10_Witness ==
  /\ ack.pc = "done"
  /\ ack.res = "not_found"
  /\ ack.id \in evicted
  /\ Len(log_buffer) = Capacity

\* The fields of a record that an acknowledge may not touch.
Unacknowledged(r) == [r EXCEPT !.acknowledged = FALSE, !.acknowledged_at = 0]

\* C11: a step of acknowledge leaves the buffer's length and order alone,
\* changes at most one record, a record that carries the requested id, and
\* changes nothing of it but acknowledged and acknowledged_at.
C11_AckChangesOnlyAckFields ==
  [][(ack.pc = "loop" /\ ack' # ack)
       => /\ Len(log_buffer') = Len(log_buffer)
          /\ \A i \in 1..Len(log_buffer) :
               /\ Unacknowledged(log_buffer'[i]) = Unacknowledged(log_buffer[i])
               /\ log_buffer'[i] # log_buffer[i] => log_buffer[i].id = ack.id
          /\ Cardinality({i \in 1..Len(log_buffer) :
                            log_buffer'[i] # log_buffer[i]}) <= 1]_vars

C11_Witness ==
  /\ ack.pc = "done"
  /\ ack.res = "acknowledged"
  /\ Len(log_buffer) = Capacity
  /\ log_buffer[2].acknowledged
  /\ ~log_buffer[1].acknowledged
  /\ ~log_buffer[3].acknowledged

\* C12: no two records of the buffer carry the same id.
C12_IdsUnique ==
  \A i, j \in 1..Len(log_buffer) : i # j => log_buffer[i].id # log_buffer[j].id

\* What the end-to-end scenario expects of SampleLine.
SampleParsed ==
  [status_code |-> 404,
   ip |-> <<"2", "0", "3", ".", "0", ".", "1", "1", "3", ".", "5">>,
   method |-> <<"G", "E", "T">>,
   path |-> <<"/", "a", "p", "i", "/", "d", "a", "t", "a">>,
   size |-> 512,
   user_agent |-> <<"c", "u", "r", "l", "/", "7", ".", "6", "8", ".", "0">>]

\* C18: parsing SampleLine yields status_code 404, ip 203.0.113.5, method GET,
\* path /api/data, size 512 and user_agent curl/7.68.0; and on a line with a
\* quoted request, a quoted referer and a quoted user agent (six quotes or
\* more) the user_agent is the content of the third quoted segment.
C18_SampleLineParsed ==
  parsed_data # <<>> =>
    /\ raw_line = SampleLine => parsed_data[1] = SampleParsed
    /\ Len(Split(raw_line, "\"")) >= 7
         => parsed_data[1].user_agent = Split(raw_line, "\"")[6]

\* A raw line with fewer than 3 quote-delimited segments; the empty and the
\* whitespace-only lines are among them.
FewSegments(line) == Len(Split(line, "\"")) < 3

Blank(line) == \A i \in 1..Len(line) : IsSpace(line[i])

\* C19 as stated: on an empty line, a whitespace-only line and a line with
\* fewer than 3 quote-delimited segments the parser returns the default
\* record, ip "unknown" included.
C19_MalformedGivesDefault ==
  (parsed_data # <<>> /\ FewSegments(raw_line)) => parsed_data[1] = DefaultParsed

\* C19 amended: on an empty or whitespace-only line the parser returns the
\* default record; on any other line with fewer than 3 quote-delimited
\* segments it returns the default record with the line's first word as the
\* ip; and on every line it returns a record of the six fields, the two
\* numbers integers and the four texts strings.
C19_MalformedGivesDefaultButIp ==
  parsed_data # <<>> =>
    /\ Blank(raw_line) => parsed_data[1] = DefaultParsed
    /\ (FewSegments(raw_line) /\ ~Blank(raw_line))
         => parsed_data[1] = [DefaultParsed EXCEPT !.ip = SplitWords(raw_line)[1]]
    /\ DOMAIN parsed_data[1]
         = {"status_code", "ip", "method", "path", "size", "user_agent"}
    /\ parsed_data[1].status_code \in Int
    /\ parsed_data[1].size \in Int
    /\ \A f \in {"ip", "method", "path", "user_agent"} :
         parsed_data[1][f] \in Seq(ParseChars \cup Range(SampleLine) \cup Range(unknown)
                                    \cup Range(UNKNOWN))

C19_Witness ==
  /\ raw_line = <<" ", "a", "\"", "4">>
  /\ parsed_data # <<>>
  /\ parsed_data[1].ip = <<"a", "\"", "4">>
  /\ parsed_data[1].status_code = 500

Min(a, b) == IF a < b THEN a ELSE b

\* The last n items of buf.
LastOf(buf, n) == SubSeq(buf, Len(buf) - n + 1, Len(buf))

\* C13: GET /logs?limit=N returns the min(N, size) most recently inserted
\* records, in insertion order, and so at most N records; none for N = 0
\* (and none for a negative N, of which "at most N" can ask no less).
C13_RecentLogsBoundedByLimit ==
  logsCall.taken =>
    LET n == Min(IF logsCall.limit < 0 THEN 0 ELSE logsCall.limit,
                 Len(logsCall.buffer))
    IN Uids(logs) = Uids(LastOf(logsCall.buffer, n))

\* C14: the list GET /logs returned stays as it was returned, whatever is
\* acknowledged, appended or evicted afterwards.
C14_RecentLogsIsACopy ==
  logsCall.taken => logs = RecentLogs(logsCall.buffer, logsCall.limit)

\* The number of records of buf whose status_code is 400 or more.
Errors(buf) == Cardinality({i \in 1..Len(buf) : IsError(buf[i])})

\* C15: the response of GET /stats has success_count = total - error_count
\* and error_rate = error_count / total, all four 0 on an empty buffer; and
\* total and error_count are the number of the buffer's records and of those
\* with status_code >= 400 (of the buffer the request ran on, when it is the
\* same from the request's first read to its last).
C15_StatsOfBuffer ==
  stats.pc = "done" =>
    /\ stats.success_count = stats.total_logs - stats.error_count
    /\ stats.error_rate.num * stats.total_logs
         = stats.error_count * stats.error_rate.den
    /\ stats.total_logs = 0 => stats.error_rate.num = 0
    /\ stats.first = stats.last =>
         /\ stats.total_logs = Len(stats.first)
         /\ stats.error_count = Errors(stats.first)

\* The texts of ts that are JSON objects with a raw_line.
Storable(ts) == SelectSeq(ts, LAMBDA t : JsonLoads(t) # 0 /\ HasRawLine(JsonLoads(t)))

\* Connection c has handled everything its agent wrote, or its thread is over.
Drained(c) ==
  \/ pc[c] = "closed"
  \/ pc[c] = "recv" /\ lines[c] = <<>> /\ wire[c] = <<>>

\* C16: whatever the agent writes (no peer closes here), the connection
\* stays in the reading state; no record is in the buffer for a line with a
\* raw_line that is not an access-log line; and once all that was written is
\* handled, every JSON object with an access-log raw_line has been ingested.
C16_MalformedInputIsSkipped ==
  \A c \in Conns :
    /\ conn[c] = "reading"
    /\ pc[c] # "closed"
    /\ \A r \in Range(log_buffer) : r.uid[1] = c => r.line # 3
    /\ Drained(c) => sent[c] >= Len(SelectSeq(written[c], LAMBDA t : t = TextOf(1)))

\* C17: once the server has handled all the bytes of texts that are valid
\* UTF-8, it has appended one record for each JSON object with a raw_line
\* that was written, whatever the sizes of the reads were.
C17_FramingIgnoresChunks ==
  \A c \in Conns :
    (Drained(c) /\ <<BadByte>> \notin Range(written[c]))
      => sent[c] = Len(Storable(written[c]))

\* C20: a broadcast that starts while no subscriber is registered ends at
\* once and without an error: no send is started, and the active set and the
\* record buffer are as before.
C20_BroadcastToNobody ==
  [][\A t \in 1..Len(tasks) :
       (tasks[t].pc = "new" /\ tasks'[t].pc # "new" /\ active_connections = <<>>)
         => /\ tasks'[t].pc = "done"
            /\ tasks'[t].disconnected = <<>>
            /\ pending' = pending
            /\ received' = received
            /\ lateSend' = lateSend
            /\ active_connections' = <<>>
            /\ log_buffer' = log_buffer]_vars

C20_Witness ==
  /\ Len(tasks) = 2
  /\ tasks[1].pc = "done"
  /\ tasks[2].pc = "new"
  /\ active_connections = <<>>
  /\ sent[1] = 2
  /\ Len(log_buffer) = Capacity
  /\ \A w \in Channels : pending[w] = <<>> /\ received[w] = <<>>

\* The broadcasts scheduled for records of connection c.
TasksOf(c) == SelectSeq(tasks, LAMBDA tk : tk.msg[1] = c)

\* C21: when the peer has closed a connection after a last text without a
\* newline, that text is discarded: the connection has appended, and has
\* scheduled a broadcast for, no more records than the newline-terminated
\* messages it was sent.
C21_UnterminatedLineDiscarded ==
  \A c \in Conns :
    (peer[c] = "closed" /\ partial[c] # <<>>)
      => /\ sent[c] <= Len(Storable(written[c]))
         /\ Len(TasksOf(c)) <= Len(Storable(written[c]))

\* C22: the end of one ingestion connection, by a read error or by the
\* peer's disconnect, is local to it.  The step that closes its socket is the
\* only close of that socket, leaves the records in the buffer as they are,
\* and leaves every other connection's socket, thread, unread bytes and
\* pending lines as they are; a closed connection stays closed and appends
\* no further record.
C22_ConnectionEndIsLocal ==
  [][\A c \in Conns :
       /\ Len(closes'[c]) <= 1
       /\ (conn[c] = "reading" /\ conn'[c] = "closed")
            => /\ Len(closes'[c]) = 1
               /\ pc'[c] = "closed"
               /\ log_buffer' = log_buffer
               /\ \A d \in Conns \ {c} :
                    /\ conn'[d] = conn[d]
                    /\ pc'[d] = pc[d]
                    /\ wire'[d] = wire[d]
                    /\ lines'[d] = lines[d]
       /\ conn[c] = "closed"
            => /\ conn'[c] = "closed"
               /\ closes'[c] = closes[c]
               /\ sent'[c] = sent[c]
               /\ \A r \in Range(log_buffer') :
                    r.uid[1] = c => r \in Range(log_buffer)]_vars

\* Connection 1 was closed once after it had appended a record, and
\* connection 2, still open, has appended a record since.
C22_Witness ==
  /\ conn[1] = "closed"
  /\ Len(closes[1]) = 1
  /\ sent[1] = 1
  /\ conn[2] = "reading"
  /\ sent[2] = 1
  /\ closes[1][1] = 1
  /\ Ingested = 2

\* No thread stands between its append and the end of its eviction.
Quiescent == \A c \in Conns : pc[c] \in {"recv", "sched", "closed"}

\* C23: threads that ingest concurrently never evict too much.  Whenever no
\* ingest is in flight the buffer holds min(total ingested, capacity)
\* records, and a record is popped only when at least capacity records
\* stand behind it in the buffer, all of them appended after it.
C23_NeverOverEvicts ==
  [][/\ Quiescent' => Len(log_buffer') = Min(Ingested', Capacity)
     /\ Len(log_buffer') < Len(log_buffer) => Len(log_buffer) - 1 >= Capacity]_vars

\* How often message t was delivered to channel w.
Deliveries(w, t) == Len(SelectSeq(received[w], LAMBDA u : u = t))

\* C24: a subscriber that is registered from the start to the end of a
\* broadcast and whose connection is healthy is sent the message of that
\* broadcast exactly once, whichever subscribers register or are
\* unregistered by their endpoints while the broadcast is suspended.
C24_HealthySubscriberSentOnce ==
  \A t \in 1..Len(tasks) :
    Finished(t) =>
      \A w \in tasks[t].atStart \cap tasks[t].atEnd :
        chan[w] = "open" => Deliveries(w, t) = 1

\* C25: append comes before broadcast.  Every scheduled broadcast carries a
\* record that its connection has appended already, no two broadcasts carry
\* the same record, so a connection has at most as many broadcasts as
\* appended records; every message delivered to a subscriber is that of a
\* scheduled broadcast; and each record was appended once, with its id and
\* its parsed fields.
C25_AppendPrecedesBroadcast ==
  /\ \A t \in 1..Len(tasks) :
       /\ tasks[t].msg[1] \in Conns
       /\ tasks[t].msg[2] \in 1..sent[tasks[t].msg[1]]
  /\ \A t, u \in 1..Len(tasks) : tasks[t].msg = tasks[u].msg => t = u
  /\ \A c \in Conns : Len(TasksOf(c)) <= sent[c]
  /\ \A w \in Channels : \A t \in Range(received[w]) : t \in 1..Len(tasks)
  /\ \A i \in 1..Len(log_buffer) :
       LET r == log_buffer[i] IN
         /\ r.id \in Ids
         /\ r.parsed_data = ParsedOf[r.line]
         /\ r.uid[1] \in Conns => r.uid[2] \in 1..sent[r.uid[1]]
         /\ \A j \in 1..Len(log_buffer) : log_buffer[j].uid = r.uid => i = j

\* Two records were appended and their broadcasts scheduled; the first was
\* delivered to subscriber 1 while its record is still in the buffer.
C25_Witness ==
  /\ sent[1] = 2
  /\ Len(tasks) = 2
  /\ tasks[1].msg = <<1, 1>>
  /\ tasks[2].msg = <<1, 2>>
  /\ received[1] = <<1>>
  /\ \E i \in 1..Len(log_buffer) : log_buffer[i].uid = <<1, 1>>

\* C26: once the application has shut down, the listening socket is closed,
\* no ingestion connection is open, none is accepted, and no record is
\* appended.
C26_ShutdownClosesEverything ==
  [][tcp_server' = "closed" =>
       /\ \A c \in Conns : conn'[c] # "reading"
       /\ tcp_server = "closed" => sent' = sent]_vars

\* A text is a JSON object that has a raw_line.
IsIngestMessage(text) == JsonLoads(text) # 0 /\ HasRawLine(JsonLoads(text))

\* C27: whichever agent runs, every message it has written is a JSON object
\* with a raw_line, so that a connection that is still up and has handled
\* all that reached it has stored one record for each line its agent sent.
C27_AgentsSendJson ==
  \A c \in Conns :
    /\ \A k \in 1..Len(written[c]) : IsIngestMessage(written[c][k])
    /\ (conn[c] = "reading" /\ Drained(c)) => sent[c] = Len(written[c])

\* C28: an agent hands each line of its file to socket.send at most once
\* and in file order, whether or not the send raises and the agent connects
\* again: its position never decreases, the lines it has handed over are in
\* strictly increasing order, and all of them, as all it has read and not
\* yet handled, lie before its position.
C28_LinesForwardedOnceInOrder ==
  [][/\ position' >= position
     /\ \A j, k \in 1..Len(forwarded') : j < k => forwarded'[j] < forwarded'[k]
     /\ \A k \in 1..Len(forwarded') : forwarded'[k] <= position'
     /\ \A k \in 1..Len(new_lines') :
          /\ new_lines'[k] <= position'
          /\ \A j \in 1..Len(forwarded') : forwarded'[j] < new_lines'[k]]_vars

\* The send of line 2 raised and the agent connected again; since then a
\* later poll has read line 3, and the agent has sent it on the new socket.
C28_Witness ==
  /\ forwarded = <<1, 2, 3>>
  /\ position = 3
  /\ socket = 2
  /\ Len(written[1]) = 1
  /\ Len(written[2]) = 1
  /\ new_lines = <<>>

====
